---- MODULE Spec2Model ----
(***************************************************************************)
(* Restaurant back end (Express + Mongoose): inventory, order lifecycle,    *)
(* cash-close reconciliation and day end.  The document store is modelled   *)
(* as three collections; every route handler is one action, except the     *)
(* order status update, which is also given step by step (lookup, then the  *)
(* inventory writes and the save) for the interleaving of two requests.     *)
(***************************************************************************)
EXTENDS Integers, Sequences, FiniteSets, TLC

(* ------------------------------ bounds -------------------------------- *)

\* Orders the store may hold.
MaxOrders == 2

\* Cash-close records the store may hold.
MaxCashCloses == 2

\* Last calendar day the clock reaches (days are 0..MaxDay).
MaxDay == 1

\* Cap on stock held of one item by direct adjustment (keeps "add" finite).
MaxStock == 4

\* Expenses one cash close may hold through add-expense requests.
MaxExpenses == 2

\* Stock subtractions, and restorations, of one order that a run with crashes
\* follows.
MaxRetries == 2

(* ------------------------- optional values ---------------------------- *)

\* A field left undefined/null in the document, and a field holding v.
None == << >>

Some(v) == << v >>

IsSet(x) == x # None

(* --------------------------- the tenants ------------------------------ *)

Restaurants == {"r1", "r2"}

Users == {"u1", "u2", "u3"}

(* -------------------------- enumerations ------------------------------ *)

OrderStatuses == {"pending", "confirmed", "preparing", "ready", "delivered", "cancelled"}

Shifts == {"morning", "afternoon", "night", "full-day"}

Items == {"i1", "i2"}

\* An id that is a well-formed object id and names no inventory document.
NoSuchItem == "i0"

ItemIds == Items \cup {NoSuchItem}

(* ----------------------------- state ---------------------------------- *)

VARIABLES
  inventory,   \* the inventoryitems collection: item id -> document
  orders,      \* the orders collection: sequence of documents, id = index
  cashCloses,  \* the cashcloses collection: sequence of documents, id = index
  today,       \* the calendar day of the server clock
  reqs,        \* status-update requests in flight: process -> loaded document
  audit,       \* per order: how often its stock was subtracted / added back
  users,       \* the users collection: user id -> document
  io           \* whether the running server attached socket.io to the requests

vars == << inventory, orders, cashCloses, today, reqs, audit, users, io >>

\* auth: req.restaurant = user.restaurant, the tenant of the caller.
UserRestaurant(u) == users[u].restaurant

\* auth: req.user.role.
UserRole(u) == users[u].role

\* authorize('admin', 'manager')
authorize(u) == UserRole(u) \in {"admin", "manager"}

\* The stored form of a password: the user's save hashes it.
hashPassword(pw) == << "hash", pw >>

comparePassword(stored, candidate) == stored = hashPassword(candidate)

Procs == {"p1", "p2"}

Idle == [pc |-> "idle"]

(* ---------------------------- arithmetic ------------------------------ *)

RECURSIVE SumSeq(_)
\* Array.prototype.reduce((sum, x) => sum + x, 0)
SumSeq(s) == IF s = << >> THEN 0 ELSE Head(s) + SumSeq(Tail(s))

Max(a, b) == IF a >= b THEN a ELSE b

RECURSIVE SumOver(_, _)
\* The sum of f[k] over the finite set S.
SumOver(f, S) ==
  IF S = {} THEN 0
  ELSE LET k == CHOOSE x \in S : TRUE IN f[k] + SumOver(f, S \ {k})

(* --------------------------- inventory -------------------------------- *)

\* inventoryItemSchema.pre('save'): the derived fields of an item.
itemPreSave(item) ==
  [item EXCEPT !.totalValue = item.quantity * item.costPrice,
               !.isLowStock = (item.quantity <= item.minQuantity)]

\* InventoryItem.findOne({_id, restaurant, isActive: true}) finds a document.
itemFound(inv, rest, id) ==
  /\ id \in DOMAIN inv
  /\ inv[id].restaurant = rest
  /\ inv[id].isActive

\* InventoryItem.findByIdAndUpdate(id, {$inc: {quantity: delta}}): by id alone,
\* no save hook and no validator runs, so only the quantity field changes.
incQuantity(inv, id, delta) ==
  IF id \in DOMAIN inv
    THEN [inv EXCEPT ![id].quantity = @ + delta]
    ELSE inv

RECURSIVE incLines(_, _, _)
\* for (const item of this.items) await findByIdAndUpdate(item.inventoryItem,
\* {$inc: {quantity: sign * item.quantity}})
incLines(inv, lines, sign) ==
  IF lines = << >> THEN inv
  ELSE incLines(incQuantity(inv, Head(lines).inventoryItem, sign * Head(lines).quantity),
                Tail(lines), sign)

\* InventoryItem.updateQuantity(newQuantity, operation), before its save.
updateQuantity(item, n, operation) ==
  IF operation = "add" THEN [item EXCEPT !.quantity = @ + n]
  ELSE IF operation = "subtract" THEN [item EXCEPT !.quantity = Max(0, @ - n)]
  ELSE [item EXCEPT !.quantity = Max(0, n)]

\* The schema validators of an item that a save runs (min: 0).
itemValid(item) ==
  /\ item.quantity >= 0
  /\ item.minQuantity >= 0
  /\ item.costPrice >= 0
  /\ item.sellingPrice >= 0

(* ----------------------------- orders --------------------------------- *)

\* The save hook with the discount left out of the total.
orderPreSaveNoDiscount(doc) ==
  LET its == [k \in DOMAIN doc.items |->
                [doc.items[k] EXCEPT !.totalPrice =
                   doc.items[k].quantity * doc.items[k].unitPrice]]
      sub == SumSeq([k \in DOMAIN its |-> its[k].totalPrice])
  IN  [doc EXCEPT !.items = its, !.subtotal = sub, !.total = sub + doc.tax]

\* orderSchema.pre('save'): line totals, subtotal and total from the lines.
orderPreSave(doc) ==
  LET its == [k \in DOMAIN doc.items |->
                [doc.items[k] EXCEPT !.totalPrice =
                   doc.items[k].quantity * doc.items[k].unitPrice]]
      sub == SumSeq([k \in DOMAIN its |-> its[k].totalPrice])
  IN  [doc EXCEPT !.items = its,
                  !.subtotal = sub,
                  !.total = sub + doc.tax - doc.discount]

\* The schema validators of an order that run before the save hook (min: 0),
\* on the values the handler assigned.
orderValid(doc) ==
  /\ doc.tax >= 0
  /\ doc.discount >= 0
  /\ doc.subtotal >= 0
  /\ doc.total >= 0
  /\ \A k \in DOMAIN doc.items : doc.items[k].quantity >= 1

\* A lookup that also finds inactive orders.
orderFoundInactive(ords, rest, id) ==
  id \in DOMAIN ords /\ ords[id].restaurant = rest

\* Order.findOne({_id, restaurant, isActive: true}) finds a document.
orderFound(ords, rest, id) ==
  /\ id \in DOMAIN ords
  /\ ords[id].restaurant = rest
  /\ ords[id].isActive

\* The loop of POST /api/orders leaving after its first line.
validateItemsFirstLine(inv, rest, lines) ==
  IF lines = << >> THEN "ok"
  ELSE IF ~ itemFound(inv, rest, Head(lines).inventoryItem) THEN "NotFound"
  ELSE IF inv[Head(lines).inventoryItem].quantity < Head(lines).quantity
    THEN "InsufficientStock"
  ELSE "ok"

RECURSIVE validateItems(_, _, _)
\* The loop of POST /api/orders over the requested lines: the first line whose
\* item is missing or inactive, or whose stock is short, ends the request.
validateItems(inv, rest, lines) ==
  IF lines = << >> THEN "ok"
  ELSE IF ~ itemFound(inv, rest, Head(lines).inventoryItem) THEN "NotFound"
  ELSE IF inv[Head(lines).inventoryItem].quantity < Head(lines).quantity
    THEN "InsufficientStock"
  ELSE validateItems(inv, rest, Tail(lines))

\* A snapshot that takes the cost for the price.
orderItemsCostAsPrice(inv, lines) ==
  [k \in DOMAIN lines |->
     [inventoryItem |-> lines[k].inventoryItem,
      quantity      |-> lines[k].quantity,
      unitPrice     |-> inv[lines[k].inventoryItem].costPrice,
      cost          |-> inv[lines[k].inventoryItem].costPrice,
      totalPrice    |-> inv[lines[k].inventoryItem].costPrice * lines[k].quantity]]

\* orderItems.push({...}): the price and cost snapshot of each requested line.
orderItems(inv, lines) ==
  [k \in DOMAIN lines |->
     [inventoryItem |-> lines[k].inventoryItem,
      quantity      |-> lines[k].quantity,
      unitPrice     |-> inv[lines[k].inventoryItem].sellingPrice,
      cost          |-> inv[lines[k].inventoryItem].costPrice,
      totalPrice    |-> inv[lines[k].inventoryItem].sellingPrice * lines[k].quantity]]

\* new Order(orderData) with the schema defaults, before its save.
newOrder(inv, rest, lines, day) ==
  [restaurant             |-> rest,
   createdAt              |-> day,
   items                  |-> orderItems(inv, lines),
   subtotal               |-> 0,
   tax                    |-> 0,
   discount               |-> 0,
   total                  |-> 0,
   status                 |-> "pending",
   inventoryDecrementedAt |-> None,
   isActive               |-> TRUE]

\* A decrement that does not look at the marker.
decrementsAlways(doc, newStatus) == newStatus \in {"preparing", "delivered"}

\* Whether updateStatus subtracts the lines from stock (first preparing/delivered).
decrements(doc, newStatus) ==
  newStatus \in {"preparing", "delivered"} /\ ~ IsSet(doc.inventoryDecrementedAt)

\* A restoration that does not look at the marker.
restoresAlways(doc, newStatus) == newStatus = "cancelled"

\* Whether updateStatus adds the lines back to stock (cancel after a decrement).
restores(doc, newStatus) ==
  newStatus = "cancelled" /\ IsSet(doc.inventoryDecrementedAt)

\* updateStatus leaving a cancelled order active.
updateStatusDocStaysActive(doc, newStatus, day) ==
  LET d1 == [doc EXCEPT !.status = newStatus]
      d2 == IF decrements(doc, newStatus)
              THEN [d1 EXCEPT !.inventoryDecrementedAt = Some(day)]
              ELSE d1
  IN  IF newStatus = "cancelled" /\ IsSet(d2.inventoryDecrementedAt)
        THEN [d2 EXCEPT !.inventoryDecrementedAt = None]
        ELSE d2

\* Order.updateStatus(newStatus): the document as it stands before this.save().
updateStatusDoc(doc, newStatus, day) ==
  LET d1 == [doc EXCEPT !.status = newStatus]
      d2 == IF decrements(doc, newStatus)
              THEN [d1 EXCEPT !.inventoryDecrementedAt = Some(day)]
              ELSE d1
      d3 == IF newStatus = "cancelled"
              THEN [d2 EXCEPT !.inventoryDecrementedAt =
                                 IF IsSet(d2.inventoryDecrementedAt) THEN None ELSE @,
                              !.isActive = FALSE]
              ELSE d2
  IN  d3

\* updateStatus writing nothing to the stock.
updateStatusInventoryNone(inv, doc, newStatus) == inv

\* Order.updateStatus(newStatus): the inventory after its $inc writes.
updateStatusInventory(inv, doc, newStatus) ==
  IF decrements(doc, newStatus) THEN incLines(inv, doc.items, -1)
  ELSE IF restores(doc, newStatus) THEN incLines(inv, doc.items, 1)
  ELSE inv

\* document.save() of a loaded document: only the paths the handler modified
\* are written over the stored document.
saveModified(stored, loaded, local) ==
  [f \in DOMAIN stored |-> IF local[f] # loaded[f] THEN local[f] ELSE stored[f]]

\* The audit trail of one more subtraction / one more restoration for order o.
auditStep(aud, o, dec, res) ==
  [aud EXCEPT ![o].decrements = @ + (IF dec THEN 1 ELSE 0),
              ![o].restores   = @ + (IF res THEN 1 ELSE 0)]

\* Object.assign(order, req.body): every field the body names is overwritten.
objectAssign(doc, body) ==
  [f \in DOMAIN doc |-> IF f \in DOMAIN body THEN body[f] ELSE doc[f]]

(* ------------------------- request inputs ----------------------------- *)

\* One requested line {inventoryItem, quantity} of POST /api/orders.
Line(i, q) == [inventoryItem |-> i, quantity |-> q]

\* Request bodies of PUT /api/orders/:id.
UpdateBodies ==
  { [tax |-> 1], [discount |-> 1], [subtotal |-> 0, total |-> 0], [tax |-> -1],
    [items |-> << [inventoryItem |-> "i1", quantity |-> 2, unitPrice |-> 3,
                   cost |-> 1, totalPrice |-> 0] >>] }

(* -------------------------- order routes ------------------------------ *)
(* Each route has its response (which early return, if any, answers the    *)
(* request) and its action; a request that is refused changes nothing.     *)

\* POST /api/orders: the response.
createOrderOutcome(inv, u, lines) ==
  validateItems(inv, UserRestaurant(u), lines)

\* POST /api/orders
CreateOrder(u, lines) ==
  /\ IF createOrderOutcome(inventory, u, lines) = "ok"
       THEN /\ Len(orders) < MaxOrders
            /\ orders' = Append(orders,
                 orderPreSave(newOrder(inventory, UserRestaurant(u), lines, today)))
            /\ audit' = Append(audit, [decrements |-> 0, restores |-> 0])
       ELSE UNCHANGED << orders, audit >>
  /\ UNCHANGED << inventory, cashCloses, today, reqs, users, io >>

\* GET /api/orders/:id: the response; the route writes nothing.
getOrderOutcome(ords, u, o) ==
  IF ~ orderFound(ords, UserRestaurant(u), o) THEN "NotFound" ELSE "ok"

\* PUT /api/orders/:id: the response.
updateOrderOutcome(ords, u, o, body) ==
  IF ~ orderFound(ords, UserRestaurant(u), o) THEN "NotFound"
  ELSE IF ~ orderValid(objectAssign(ords[o], body)) THEN "Internal"
  ELSE "ok"

\* PUT /api/orders/:id
UpdateOrder(u, o, body) ==
  /\ IF updateOrderOutcome(orders, u, o, body) = "ok"
       THEN orders' = [orders EXCEPT ![o] =
                         saveModified(@, @, orderPreSave(objectAssign(@, body)))]
       ELSE UNCHANGED orders
  /\ UNCHANGED << inventory, cashCloses, today, reqs, audit, users, io >>

\* A status route that also finds inactive orders.
updateStatusOutcomeInactive(ords, u, o) ==
  IF o \in DOMAIN ords /\ ords[o].restaurant = UserRestaurant(u) THEN "ok" ELSE "NotFound"

\* PUT /api/orders/:id/status: the response.
updateStatusOutcome(ords, u, o) ==
  IF ~ orderFound(ords, UserRestaurant(u), o) THEN "NotFound" ELSE "ok"

\* order.updateStatus(status) on the loaded document doc of order o: the $inc
\* writes on the stock, then the save of the paths it modified.
runUpdateStatus(o, doc, newStatus) ==
  LET local == orderPreSave(updateStatusDoc(doc, newStatus, today)) IN
  /\ inventory' = updateStatusInventory(inventory, doc, newStatus)
  /\ orders' = [orders EXCEPT ![o] = saveModified(@, doc, local)]
  /\ audit' = auditStep(audit, o, decrements(doc, newStatus), restores(doc, newStatus))

\* PUT /api/orders/:id/status, the whole handler without interruption.
UpdateOrderStatus(u, o, newStatus) ==
  /\ IF updateStatusOutcome(orders, u, o) = "ok"
       THEN runUpdateStatus(o, orders[o], newStatus)
       ELSE UNCHANGED << orders, inventory, audit >>
  /\ UNCHANGED << cashCloses, today, reqs, users, io >>

\* PUT /api/orders/:id/status up to its lookup: Order.findOne loads the document.
StatusFind(p, u, o, newStatus) ==
  /\ reqs[p] = Idle
  /\ IF updateStatusOutcome(orders, u, o) = "ok"
       THEN reqs' = [reqs EXCEPT ![p] =
                       [pc |-> "loaded", order |-> o, newStatus |-> newStatus,
                        doc |-> orders[o]]]
       ELSE UNCHANGED reqs
  /\ UNCHANGED << inventory, orders, cashCloses, today, audit, users, io >>

\* PUT /api/orders/:id/status from order.updateStatus(status) on.
StatusRun(p) ==
  /\ reqs[p] # Idle
  /\ runUpdateStatus(reqs[p].order, reqs[p].doc, reqs[p].newStatus)
  /\ reqs' = [reqs EXCEPT ![p] = Idle]
  /\ UNCHANGED << cashCloses, today, users, io >>

\* order.updateStatus(status), first write: the $inc writes on the stock.
StatusInc(p) ==
  /\ reqs[p].pc = "loaded"
  /\ inventory' = updateStatusInventory(inventory, reqs[p].doc, reqs[p].newStatus)
  /\ audit' = auditStep(audit, reqs[p].order, decrements(reqs[p].doc, reqs[p].newStatus),
                        restores(reqs[p].doc, reqs[p].newStatus))
  /\ reqs' = [reqs EXCEPT ![p].pc = "adjusted"]
  /\ UNCHANGED << orders, cashCloses, today, users, io >>

\* order.updateStatus(status), second write: this.save() of the order.
StatusSave(p) ==
  /\ reqs[p].pc = "adjusted"
  /\ orders' = [orders EXCEPT ![reqs[p].order] =
                  saveModified(@, reqs[p].doc,
                    orderPreSave(updateStatusDoc(reqs[p].doc, reqs[p].newStatus, today)))]
  /\ reqs' = [reqs EXCEPT ![p] = Idle]
  /\ UNCHANGED << inventory, cashCloses, today, audit, users, io >>

\* The server process dies: the requests in flight are lost, the store stays.
Crash ==
  /\ \E p \in Procs : reqs[p] # Idle
  /\ reqs' = [p \in Procs |-> Idle]
  /\ UNCHANGED << inventory, orders, cashCloses, today, audit, users, io >>

\* DELETE /api/orders/:id: the response.
deleteOrderOutcome(ords, u, o) ==
  IF ~ authorize(u) THEN "Forbidden"
  ELSE IF ~ orderFound(ords, UserRestaurant(u), o) THEN "NotFound"
  ELSE "ok"

\* A delete that gives back only what was subtracted.
DeleteOrderIfDecremented(u, o) ==
  /\ IF deleteOrderOutcome(orders, u, o) = "ok"
       THEN LET doc       == orders[o]
                givesBack == doc.status # "delivered" /\ IsSet(doc.inventoryDecrementedAt)
            IN  /\ inventory' = IF givesBack THEN incLines(inventory, doc.items, 1)
                                             ELSE inventory
                /\ orders' = [orders EXCEPT ![o] =
                                saveModified(@, doc, orderPreSave([doc EXCEPT !.isActive = FALSE]))]
                /\ audit' = auditStep(audit, o, FALSE, givesBack)
       ELSE UNCHANGED << orders, inventory, audit >>
  /\ UNCHANGED << cashCloses, today, reqs, users, io >>

\* DELETE /api/orders/:id
DeleteOrder(u, o) ==
  /\ IF deleteOrderOutcome(orders, u, o) = "ok"
       THEN LET doc       == orders[o]
                givesBack == doc.status # "delivered"
            IN  /\ inventory' = IF givesBack THEN incLines(inventory, doc.items, 1)
                                             ELSE inventory
                /\ orders' = [orders EXCEPT ![o] =
                                saveModified(@, doc, orderPreSave([doc EXCEPT !.isActive = FALSE]))]
                /\ audit' = auditStep(audit, o, FALSE, givesBack)
       ELSE UNCHANGED << orders, inventory, audit >>
  /\ UNCHANGED << cashCloses, today, reqs, users, io >>

(* ------------------------ inventory routes ---------------------------- *)

\* POST /api/inventory/:id/update-quantity: the response.
updateQuantityOutcome(inv, u, i, n, operation) ==
  IF ~ itemFound(inv, UserRestaurant(u), i) THEN "NotFound"
  ELSE IF ~ itemValid(updateQuantity(inv[i], n, operation)) THEN "Internal"
  ELSE "ok"

\* POST /api/inventory/:id/update-quantity
UpdateQuantity(u, i, n, operation) ==
  /\ IF updateQuantityOutcome(inventory, u, i, n, operation) = "ok"
       THEN /\ updateQuantity(inventory[i], n, operation).quantity <= MaxStock
            /\ inventory' = [inventory EXCEPT ![i] =
                               itemPreSave(updateQuantity(@, n, operation))]
       ELSE UNCHANGED inventory
  /\ UNCHANGED << orders, cashCloses, today, reqs, audit, users, io >>

\* Request bodies of PUT /api/inventory/:id.
ItemBodies ==
  { [quantity |-> 3], [minQuantity |-> 2], [costPrice |-> 2, sellingPrice |-> 4] }

\* The update validators of findOneAndUpdate(..., {runValidators: true}): the
\* min: 0 of each path the body names.
itemBodyValid(body) ==
  \A f \in DOMAIN body \cap {"quantity", "minQuantity", "costPrice", "sellingPrice"} :
    body[f] >= 0

\* PUT /api/inventory/:id: the response.
updateItemOutcome(inv, u, i, body) ==
  IF ~ authorize(u) THEN "Forbidden"
  ELSE IF ~ itemBodyValid(body) THEN "Internal"
  ELSE IF ~ itemFound(inv, UserRestaurant(u), i) THEN "NotFound"
  ELSE "ok"

\* PUT /api/inventory/:id: findOneAndUpdate writes the paths of the body and
\* runs no save hook.
UpdateItem(u, i, body) ==
  /\ IF updateItemOutcome(inventory, u, i, body) = "ok"
       THEN /\ objectAssign(inventory[i], body).quantity <= MaxStock
            /\ inventory' = [inventory EXCEPT ![i] = objectAssign(@, body)]
       ELSE UNCHANGED inventory
  /\ UNCHANGED << orders, cashCloses, today, reqs, audit, users, io >>

(* --------------------------- cash close ------------------------------- *)

\* CashClose.findOne({_id, restaurant, isActive: true}) finds a document.
cashFound(ccs, rest, id) ==
  /\ id \in DOMAIN ccs
  /\ ccs[id].restaurant = rest
  /\ ccs[id].isActive

\* expenses.reduce((sum, expense) => sum + expense.amount, 0)
expensesTotal(expenses) ==
  SumSeq([k \in DOMAIN expenses |-> expenses[k].amount])

\* cashCloseSchema.pre('save'): totalExpenses and netSales.  With sales.total
\* undefined the difference is NaN, which the Number path refuses: netSales
\* keeps the value it had.
cashPreSave(doc) ==
  LET te == expensesTotal(doc.expenses) IN
  [doc EXCEPT !.totalExpenses = te,
              !.netSales = IF IsSet(doc.sales.total) THEN doc.sales.total[1] - te ELSE @]

\* The schema validators of a cash close that a save runs (min: 0).
cashValid(doc) ==
  /\ doc.openingCash >= 0
  /\ IsSet(doc.closingCash) => doc.closingCash[1] >= 0
  /\ doc.expectedCash >= 0
  /\ doc.sales.cash >= 0
  /\ doc.sales.card >= 0
  /\ doc.sales.transfer >= 0
  /\ IsSet(doc.sales.total) => doc.sales.total[1] >= 0
  /\ doc.totalExpenses >= 0
  /\ \A k \in DOMAIN doc.expenses : doc.expenses[k].amount >= 0

\* new CashClose(cashCloseData) of POST /api/cash-close, with the schema defaults
\* (date, openedBy and notes are written once and never read: not modelled).
newCashClose(rest, u, shift, openingCash, day) ==
  [restaurant    |-> rest,
   shift         |-> shift,
   openingCash   |-> openingCash,
   closedBy      |-> None,
   closingCash   |-> None,
   expectedCash  |-> openingCash,
   difference    |-> None,
   sales         |-> [cash |-> 0, card |-> 0, transfer |-> 0, total |-> None],
   expenses      |-> << >>,
   totalExpenses |-> 0,
   netSales      |-> 0,
   status        |-> "open",
   verifiedBy    |-> None,
   verifiedAt    |-> None,
   isActive      |-> TRUE]

\* The first value closeCash assigns to this.difference:
\* totalReportedSales - totalSystemSales.
reportedDifference(closingCash, cardSales, totalSystemSales) ==
  (closingCash + cardSales) - totalSystemSales

\* closeCash without its last assignment: the difference stays the reported one.
closeCashReported(doc, closingCash, cardSales, expenses, totalSalesFromOrders, closedBy) ==
  LET d1 == [doc EXCEPT !.closingCash = Some(closingCash),
                        !.sales.card = cardSales,
                        !.expenses = expenses,
                        !.closedBy = Some(closedBy),
                        !.status = "closed"]
      d2 == [d1 EXCEPT !.difference =
                         Some(reportedDifference(closingCash, cardSales, totalSalesFromOrders))]
      d3 == [d2 EXCEPT !.sales.total = Some(totalSalesFromOrders),
                       !.sales.cash = totalSalesFromOrders - d2.sales.card]
      d4 == [d3 EXCEPT !.totalExpenses = expensesTotal(d3.expenses)]
  IN  [d4 EXCEPT !.expectedCash = d4.openingCash + d4.sales.cash - d4.totalExpenses]

\* CashClose.closeCash(closingData, closedBy), before its save.
closeCash(doc, closingCash, cardSales, expenses, totalSalesFromOrders, closedBy) ==
  LET d1 == [doc EXCEPT !.closingCash = Some(closingCash),
                        !.sales.card = cardSales,
                        !.expenses = expenses,
                        !.closedBy = Some(closedBy),
                        !.status = "closed"]
      d2 == [d1 EXCEPT !.difference =
                         Some(reportedDifference(closingCash, cardSales, totalSalesFromOrders))]
      d3 == [d2 EXCEPT !.sales.total = Some(totalSalesFromOrders),
                       !.sales.cash = totalSalesFromOrders - d2.sales.card]
      d4 == [d3 EXCEPT !.totalExpenses = expensesTotal(d3.expenses)]
      d5 == [d4 EXCEPT !.expectedCash = d4.openingCash + d4.sales.cash - d4.totalExpenses]
      d6 == [d5 EXCEPT !.difference = Some(d5.closingCash[1] - d5.expectedCash)]
  IN  d6

\* CashClose.verifyCashClose(verifiedBy), before its save.
verifyCashClose(doc, verifiedBy, day) ==
  [doc EXCEPT !.verifiedBy = Some(verifiedBy),
              !.verifiedAt = Some(day),
              !.status = "verified"]

\* addExpense putting the new expense in place of the list.
addExpenseReplaces(doc, expense) ==
  [doc EXCEPT !.expenses = << expense >>]

\* CashClose.addExpense(expenseData), before its save.
addExpense(doc, expense) ==
  [doc EXCEPT !.expenses = Append(@, expense)]

\* restoreCashClose without the reset of expectedCash.
restoreKeepsExpected(doc) ==
  [doc EXCEPT !.status = "open",
              !.closingCash = None,
              !.closedBy = None,
              !.verifiedBy = None,
              !.verifiedAt = None,
              !.sales.card = 0,
              !.sales.total = Some(0),
              !.sales.cash = 0,
              !.difference = None]

\* CashClose.restoreCashClose(), before its save.
restoreCashClose(doc) ==
  [doc EXCEPT !.status = "open",
              !.closingCash = None,
              !.closedBy = None,
              !.verifiedBy = None,
              !.verifiedAt = None,
              !.sales.card = 0,
              !.sales.total = Some(0),
              !.sales.cash = 0,
              !.difference = None,
              !.expectedCash = doc.openingCash]

\* Order.find({restaurant, createdAt within today, isActive: true, status:
\* 'delivered'}): the ids of the orders the close sums.
deliveredOrders(ords, rest, day) ==
  { o \in DOMAIN ords : /\ ords[o].restaurant = rest
                        /\ ords[o].createdAt = day
                        /\ ords[o].isActive
                        /\ ords[o].status = "delivered" }

\* deliveredOrders.reduce((sum, order) => sum + order.total, 0)
totalSalesFromOrders(ords, rest, day) ==
  SumOver([o \in DOMAIN ords |-> ords[o].total], deliveredOrders(ords, rest, day))

\* Order.find({restaurant, isActive: true, createdAt within today}) of the day end.
dayOrders(ords, rest, day) ==
  { o \in DOMAIN ords : /\ ords[o].restaurant = rest
                        /\ ords[o].isActive
                        /\ ords[o].createdAt = day }

\* new CashClose({...}) of POST /api/day/end: the end-of-day record.
endOfDayRecord(rest, u, totalRevenue, day) ==
  [newCashClose(rest, u, "full-day", 0, day) EXCEPT
     !.closedBy = Some(u),
     !.closingCash = Some(totalRevenue),
     !.expectedCash = totalRevenue,
     !.difference = Some(0),
     !.sales.total = Some(totalRevenue),
     !.status = "closed"]

(* ------------------------ cash-close inputs --------------------------- *)

\* Shifts the open requests name.
OpenShifts == {"morning", "full-day"}

\* Amounts of opening cash, closing cash and reported card sales in requests.
OpeningAmounts == {0, 2}

ClosingAmounts == {0, 5}

CardAmounts == {0, 3}

\* One expense {description, amount, category}; only the amount is modelled.
Expense(a) == [amount |-> a]

\* The expenses array of a close request, and the expense of an add request.
ExpenseLists == { << >>, << Expense(2) >> }

ExpenseBodies == { Expense(1) }

(* ------------------------ cash-close routes --------------------------- *)

\* CashClose.findOne({restaurant, shift, status: 'open', isActive: true}) of
\* POST /api/cash-close finds a document.
existingCashClose(ccs, rest, shift) ==
  \E c \in DOMAIN ccs :
    /\ ccs[c].restaurant = rest
    /\ ccs[c].shift = shift
    /\ ccs[c].status = "open"
    /\ ccs[c].isActive

\* POST /api/cash-close: the response.
openCashOutcome(ccs, u, shift) ==
  IF existingCashClose(ccs, UserRestaurant(u), shift) THEN "Conflict" ELSE "ok"

\* POST /api/cash-close
OpenCash(u, shift, openingCash) ==
  /\ IF openCashOutcome(cashCloses, u, shift) = "ok"
       THEN /\ Len(cashCloses) < MaxCashCloses
            /\ cashCloses' = Append(cashCloses,
                 cashPreSave(newCashClose(UserRestaurant(u), u, shift, openingCash, today)))
       ELSE UNCHANGED cashCloses
  /\ UNCHANGED << inventory, orders, today, reqs, audit, users, io >>

\* PUT /api/cash-close/:id/close: the document closeCash hands to save.
closing(ccs, ords, day, u, c, closingCash, cardSales, expenses) ==
  closeCash(ccs[c], closingCash, cardSales, expenses,
            totalSalesFromOrders(ords, UserRestaurant(u), day), u)

\* The response of the close without the check of the status.
closeCashOutcomeAnyStatus(ccs, ords, day, u, c, closingCash, cardSales, expenses) ==
  IF ~ cashFound(ccs, UserRestaurant(u), c) THEN "NotFound"
  ELSE IF ~ cashValid(closing(ccs, ords, day, u, c, closingCash, cardSales, expenses))
    THEN "Internal"
  ELSE "ok"

\* PUT /api/cash-close/:id/close: the response.
closeCashOutcome(ccs, ords, day, u, c, closingCash, cardSales, expenses) ==
  IF ~ cashFound(ccs, UserRestaurant(u), c) THEN "NotFound"
  ELSE IF ccs[c].status # "open" THEN "InvalidState"
  ELSE IF ~ cashValid(closing(ccs, ords, day, u, c, closingCash, cardSales, expenses))
    THEN "Internal"
  ELSE "ok"

\* PUT /api/cash-close/:id/close
CloseCash(u, c, closingCash, cardSales, expenses) ==
  /\ IF closeCashOutcome(cashCloses, orders, today, u, c, closingCash, cardSales, expenses) = "ok"
       THEN cashCloses' = [cashCloses EXCEPT ![c] =
              cashPreSave(closing(cashCloses, orders, today, u, c,
                                  closingCash, cardSales, expenses))]
       ELSE UNCHANGED cashCloses
  /\ UNCHANGED << inventory, orders, today, reqs, audit, users, io >>

\* The response of the verify without the check of the status.
verifyCashOutcomeAnyStatus(ccs, u, c) ==
  IF ~ authorize(u) THEN "Forbidden"
  ELSE IF ~ cashFound(ccs, UserRestaurant(u), c) THEN "NotFound"
  ELSE "ok"

\* PUT /api/cash-close/:id/verify: the response.
verifyCashOutcome(ccs, u, c) ==
  IF ~ authorize(u) THEN "Forbidden"
  ELSE IF ~ cashFound(ccs, UserRestaurant(u), c) THEN "NotFound"
  ELSE IF ccs[c].status # "closed" THEN "InvalidState"
  ELSE "ok"

\* PUT /api/cash-close/:id/verify
VerifyCash(u, c) ==
  /\ IF verifyCashOutcome(cashCloses, u, c) = "ok"
       THEN cashCloses' = [cashCloses EXCEPT ![c] =
                             cashPreSave(verifyCashClose(@, u, today))]
       ELSE UNCHANGED cashCloses
  /\ UNCHANGED << inventory, orders, today, reqs, audit, users, io >>

\* POST /api/cash-close/:id/expenses: the response.
addExpenseOutcome(ccs, u, c) ==
  IF ~ cashFound(ccs, UserRestaurant(u), c) THEN "NotFound"
  ELSE IF ccs[c].status # "open" THEN "InvalidState"
  ELSE "ok"

\* POST /api/cash-close/:id/expenses
AddExpense(u, c, expense) ==
  /\ IF addExpenseOutcome(cashCloses, u, c) = "ok"
       THEN /\ Len(cashCloses[c].expenses) < MaxExpenses
            /\ cashCloses' = [cashCloses EXCEPT ![c] = cashPreSave(addExpense(@, expense))]
       ELSE UNCHANGED cashCloses
  /\ UNCHANGED << inventory, orders, today, reqs, audit, users, io >>

\* A restore that does not look at the status.
restoreCashOutcomeAnyStatus(ccs, u, c) ==
  IF ~ cashFound(ccs, UserRestaurant(u), c) THEN "NotFound" ELSE "ok"

\* PUT /api/cash-close/:id/restore: the response.
restoreCashOutcome(ccs, u, c) ==
  IF ~ cashFound(ccs, UserRestaurant(u), c) THEN "NotFound"
  ELSE IF ccs[c].status = "open" THEN "InvalidState"
  ELSE "ok"

\* PUT /api/cash-close/:id/restore
RestoreCash(u, c) ==
  /\ IF restoreCashOutcome(cashCloses, u, c) = "ok"
       THEN cashCloses' = [cashCloses EXCEPT ![c] = cashPreSave(restoreCashClose(@))]
       ELSE UNCHANGED cashCloses
  /\ UNCHANGED << inventory, orders, today, reqs, audit, users, io >>

(* ----------------------------- day end -------------------------------- *)

\* Order.updateMany({restaurant, isActive: true}, {$set: {isActive: false}})
archiveOrders(ords, rest) ==
  [o \in DOMAIN ords |->
     IF ords[o].restaurant = rest /\ ords[o].isActive
       THEN [ords[o] EXCEPT !.isActive = FALSE]
       ELSE ords[o]]

\* orders.reduce((sum, order) => sum + order.total, 0) of POST /api/day/end
totalRevenue(ords, rest, day) ==
  SumOver([o \in DOMAIN ords |-> ords[o].total], dayOrders(ords, rest, day))

\* orders.length of POST /api/day/end, reported as totalOrders.
totalOrders(ords, rest, day) == Cardinality(dayOrders(ords, rest, day))

\* POST /api/day/end: the response (the route names no role).
dayEndOutcome(ords, day, u) ==
  IF ~ cashValid(endOfDayRecord(UserRestaurant(u), u,
                                totalRevenue(ords, UserRestaurant(u), day), day))
    THEN "Internal"
  ELSE "ok"

\* POST /api/day/end
DayEnd(u) ==
  /\ IF dayEndOutcome(orders, today, u) = "ok"
       THEN /\ Len(cashCloses) < MaxCashCloses
            /\ cashCloses' = Append(cashCloses,
                 cashPreSave(endOfDayRecord(UserRestaurant(u), u,
                               totalRevenue(orders, UserRestaurant(u), today), today)))
            /\ orders' = archiveOrders(orders, UserRestaurant(u))
       ELSE UNCHANGED << cashCloses, orders >>
  /\ UNCHANGED << inventory, today, reqs, audit, users, io >>

\* Midnight passes on the server clock.
AdvanceDay ==
  /\ today < MaxDay
  /\ today' = today + 1
  /\ UNCHANGED << inventory, orders, cashCloses, reqs, audit, users, io >>

(* --------------------------- initial state ---------------------------- *)

\* Two products of restaurant r1 as POST /api/inventory saved them; no order,
\* no cash close, no request in flight; an admin and an employee of r1 and an
\* admin of r2; the server started outside production, socket.io attached.
Init ==
  /\ inventory = [i \in Items |->
       itemPreSave([restaurant   |-> "r1",
                    isActive     |-> TRUE,
                    quantity     |-> IF i = "i1" THEN 2 ELSE 1,
                    minQuantity  |-> 1,
                    costPrice    |-> IF i = "i1" THEN 1 ELSE 2,
                    sellingPrice |-> IF i = "i1" THEN 3 ELSE 5,
                    totalValue   |-> 0,
                    isLowStock   |-> FALSE])]
  /\ orders = << >>
  /\ cashCloses = << >>
  /\ today = 0
  /\ reqs = [p \in Procs |-> Idle]
  /\ audit = << >>
  /\ users = [u \in Users |->
       [restaurant |-> IF u = "u3" THEN "r2" ELSE "r1",
        role       |-> IF u = "u2" THEN "employee" ELSE "admin",
        password   |-> hashPassword("pw0"),
        isActive   |-> TRUE]]
  /\ io = TRUE

(* ------------------------- specifications ----------------------------- *)
(* One specification per group of routes, over the same state and the same *)
(* initial state; each draws its requests from small sets.                 *)

\* Bodies of POST /api/orders: one line, two lines, a line of an unknown item
\* before a line that is short of stock, a first line that is short of stock.
OrderRequests ==
  { << Line("i1", 1) >>,
    << Line("i1", 2) >>,
    << Line("i1", 1), Line("i2", 2) >>,
    << Line(NoSuchItem, 1), Line("i2", 2) >>,
    << Line("i1", 1), Line("i2", 1) >> }

\* Statuses the status requests of the order specifications ask for.
StatusRequests == {"confirmed", "preparing", "delivered", "cancelled"}

\* Orders and stock: create, status, delete, quantity adjustment.
NextOrders ==
  \/ \E u \in Users, lines \in OrderRequests : CreateOrder(u, lines)
  \/ \E u \in Users, o \in 1 .. MaxOrders, s \in StatusRequests : UpdateOrderStatus(u, o, s)
  \/ \E u \in Users, o \in 1 .. MaxOrders : DeleteOrder(u, o)
  \/ \E u \in Users, operation \in {"set", "add", "subtract"} :
       UpdateQuantity(u, "i1", 1, operation)

SpecOrders == Init /\ [][NextOrders]_vars

\* Orders and their totals: create, generic update, status, delete.
NextTotals ==
  \/ \E u \in Users, lines \in OrderRequests : CreateOrder(u, lines)
  \/ \E u \in Users, o \in 1 .. MaxOrders, body \in UpdateBodies : UpdateOrder(u, o, body)
  \/ \E u \in Users, o \in 1 .. MaxOrders, s \in StatusRequests : UpdateOrderStatus(u, o, s)
  \/ \E u \in Users, o \in 1 .. MaxOrders : DeleteOrder(u, o)

SpecTotals == Init /\ [][NextTotals]_vars

\* Two status requests in flight on the same store.
NextConc ==
  \/ \E lines \in { << Line("i1", 1) >>, << Line("i1", 1), Line("i2", 1) >> } :
       CreateOrder("u1", lines)
  \/ \E p \in Procs, u \in {"u1", "u3"}, o \in 1 .. MaxOrders,
        s \in {"preparing", "delivered", "cancelled"} : StatusFind(p, u, o, s)
  \/ \E p \in Procs : StatusRun(p)

SpecConc == Init /\ [][NextConc]_vars

\* The cash-close state machine of every tenant and two shifts, without orders.
NextCash ==
  \/ \E u \in Users, shift \in OpenShifts, a \in OpeningAmounts : OpenCash(u, shift, a)
  \/ \E u \in Users, c \in 1 .. MaxCashCloses, k \in ClosingAmounts, cd \in CardAmounts,
        e \in ExpenseLists : CloseCash(u, c, k, cd, e)
  \/ \E u \in Users, c \in 1 .. MaxCashCloses : VerifyCash(u, c)
  \/ \E u \in Users, c \in 1 .. MaxCashCloses, e \in ExpenseBodies : AddExpense(u, c, e)
  \/ \E u \in Users, c \in 1 .. MaxCashCloses : RestoreCash(u, c)
  \/ \E u \in Users : DayEnd(u)

SpecCash == Init /\ [][NextCash]_vars

\* The close of a shift over the day's orders: sales, delete, day end, midnight.
NextSales ==
  \/ \E a \in OpeningAmounts : OpenCash("u1", "morning", a)
  \/ \E u \in {"u1", "u3"}, c \in 1 .. MaxCashCloses, cd \in CardAmounts, e \in ExpenseLists :
       CloseCash(u, c, 5, cd, e)
  \/ DayEnd("u1")
  \/ CreateOrder("u1", << Line("i1", 1) >>)
  \/ \E o \in 1 .. MaxOrders, s \in {"delivered", "cancelled"} : UpdateOrderStatus("u1", o, s)
  \/ \E o \in 1 .. MaxOrders : DeleteOrder("u1", o)
  \/ AdvanceDay

SpecSales == Init /\ [][NextSales]_vars

\* Close, verify and restore of a shift that has sales.
NextRestore ==
  \/ \E a \in OpeningAmounts : OpenCash("u1", "morning", a)
  \/ \E u \in {"u1", "u3"}, c \in 1 .. MaxCashCloses, cd \in CardAmounts, e \in ExpenseLists :
       CloseCash(u, c, 5, cd, e)
  \/ \E c \in 1 .. MaxCashCloses : VerifyCash("u1", c)
  \/ \E c \in 1 .. MaxCashCloses : RestoreCash("u1", c)
  \/ DayEnd("u1")
  \/ CreateOrder("u1", << Line("i1", 1) >>)
  \/ \E o \in 1 .. MaxOrders : UpdateOrderStatus("u1", o, "delivered")

SpecRestore == Init /\ [][NextRestore]_vars

\* The stock of the items under orders, adjustments and edits.
NextInventory ==
  \/ CreateOrder("u1", << Line("i1", 2) >>)
  \/ \E o \in 1 .. MaxOrders, s \in {"preparing", "cancelled"} : UpdateOrderStatus("u1", o, s)
  \/ \E o \in 1 .. MaxOrders : DeleteOrder("u1", o)
  \/ \E u \in {"u1", "u3"}, n \in 1 .. 2, operation \in {"set", "add", "subtract"} :
       UpdateQuantity(u, "i1", n, operation)
  \/ \E u \in {"u1", "u2"}, body \in ItemBodies : UpdateItem(u, "i1", body)

SpecInventory == Init /\ [][NextInventory]_vars

(* ---------------------------- user routes ----------------------------- *)

NoSuchUser == "u0"

UserIds == Users \cup {NoSuchUser}

NewPasswords == {"pw1"}

\* auth: the token's user exists and is active.
authenticated(us, u) == us[u].isActive

userFound(us, r, id) == id \in DOMAIN us /\ us[id].restaurant = r

\* Bodies of PUT /api/users/:id.
UserBodies == { [role |-> "employee"], [isActive |-> FALSE], [restaurant |-> "r2"] }

\* PUT /api/users/:id: the user the request acts on.
updateUserId(us, caller, id) ==
  IF us[caller].role \in {"admin", "manager"} THEN id ELSE caller

updateUserOutcome(us, caller, id, body) ==
  IF ~ authenticated(us, caller) THEN "Unauthorized"
  ELSE IF ~ userFound(us, us[caller].restaurant, updateUserId(us, caller, id)) THEN "NotFound"
  ELSE IF us[caller].role = "employee" /\ DOMAIN body \cap {"role", "isActive"} # {} THEN "Forbidden"
  ELSE "ok"

UpdateUser(caller, id, body) ==
  /\ IF updateUserOutcome(users, caller, id, body) = "ok"
     THEN users' = [users EXCEPT ![updateUserId(users, caller, id)] = objectAssign(@, body)]
     ELSE UNCHANGED users
  /\ UNCHANGED << inventory, orders, cashCloses, today, reqs, audit, io >>

deleteUserOutcome(us, caller, id) ==
  IF ~ authenticated(us, caller) THEN "Unauthorized"
  ELSE IF us[caller].role # "admin" THEN "Forbidden"
  ELSE IF id = caller THEN "BadRequest"
  ELSE IF ~ userFound(us, us[caller].restaurant, id) THEN "NotFound"
  ELSE "ok"

DeleteUser(caller, id) ==
  /\ IF deleteUserOutcome(users, caller, id) = "ok"
     THEN users' = [users EXCEPT ![id].isActive = FALSE]
     ELSE UNCHANGED users
  /\ UNCHANGED << inventory, orders, cashCloses, today, reqs, audit, io >>

\* PUT /api/users/:id/change-password: the user the request acts on.
changePasswordId(us, caller, id) ==
  IF us[caller].role = "admin" THEN id ELSE caller

changePasswordOutcome(us, caller, id, currentPassword) ==
  IF ~ authenticated(us, caller) THEN "Unauthorized"
  ELSE IF changePasswordId(us, caller, id) \notin DOMAIN us THEN "NotFound"
  ELSE IF /\ us[caller].role # "admin"
          /\ ~ comparePassword(us[changePasswordId(us, caller, id)].password, currentPassword)
       THEN "BadRequest"
  ELSE "ok"

ChangePassword(caller, id, currentPassword, newPassword) ==
  /\ IF changePasswordOutcome(users, caller, id, currentPassword) = "ok"
     THEN users' = [users EXCEPT ![changePasswordId(users, caller, id)].password =
                                   hashPassword(newPassword)]
     ELSE UNCHANGED users
  /\ UNCHANGED << inventory, orders, cashCloses, today, reqs, audit, io >>

toggleStatusOutcome(us, caller, id) ==
  IF ~ authenticated(us, caller) THEN "Unauthorized"
  ELSE IF us[caller].role \notin {"admin", "manager"} THEN "Forbidden"
  ELSE IF id = caller THEN "BadRequest"
  ELSE IF ~ userFound(us, us[caller].restaurant, id) THEN "NotFound"
  ELSE "ok"

ToggleStatus(caller, id) ==
  /\ IF toggleStatusOutcome(users, caller, id) = "ok"
     THEN users' = [users EXCEPT ![id].isActive = ~ @]
     ELSE UNCHANGED users
  /\ UNCHANGED << inventory, orders, cashCloses, today, reqs, audit, io >>

\* The user-management requests of one caller.
UserStep(caller) ==
  \/ \E id \in UserIds, body \in UserBodies : UpdateUser(caller, id, body)
  \/ \E id \in UserIds : DeleteUser(caller, id)
  \/ \E id \in UserIds, cur \in {"pw0"} \cup NewPasswords, new \in NewPasswords :
       ChangePassword(caller, id, cur, new)
  \/ \E id \in UserIds : ToggleStatus(caller, id)

NextUsers == \E caller \in Users : UserStep(caller)

SpecUsers == Init /\ [][NextUsers]_vars

\* Bodies of PUT /api/orders/:id that name the owning restaurant.
TenantBodies == { [restaurant |-> "r2"], [tax |-> 1] }

\* The requests of one caller on orders, stock and cash closes.
TenantStep(u) ==
  \/ CreateOrder(u, << Line("i1", 1) >>)
  \/ \E o \in 1 .. MaxOrders, body \in TenantBodies : UpdateOrder(u, o, body)
  \/ \E o \in 1 .. MaxOrders, s \in {"preparing", "cancelled"} : UpdateOrderStatus(u, o, s)
  \/ \E o \in 1 .. MaxOrders : DeleteOrder(u, o)
  \/ UpdateQuantity(u, "i1", 1, "set")
  \/ OpenCash(u, "morning", 0)
  \/ \E c \in 1 .. MaxCashCloses : CloseCash(u, c, 5, 0, << >>)
  \/ \E c \in 1 .. MaxCashCloses : RestoreCash(u, c)

\* Two tenants on one store.
NextTenants == \E u \in {"u1", "u3"} : TenantStep(u)

SpecTenants == Init /\ [][NextTenants]_vars

(* ----------------------------- prices --------------------------------- *)

\* Bodies of PUT /api/inventory/:id that change a price.
PriceBodies ==
  { [sellingPrice |-> 3], [sellingPrice |-> 4], [costPrice |-> 1], [costPrice |-> 2] }

\* Orders taken while the prices of the items change.
NextPrices ==
  \/ \E i \in Items : CreateOrder("u1", << Line(i, 1) >>)
  \/ \E i \in Items, body \in PriceBodies : UpdateItem("u1", i, body)
  \/ \E o \in 1 .. MaxOrders, s \in {"preparing", "delivered"} : UpdateOrderStatus("u1", o, s)
  \/ \E o \in 1 .. MaxOrders : UpdateOrder("u1", o, [subtotal |-> 0, total |-> 0])
  \/ \E o \in 1 .. MaxOrders : DeleteOrder("u1", o)

SpecPrices == Init /\ [][NextPrices]_vars

(* --------------------------- broadcast -------------------------------- *)

\* Start of the server that attaches socket.io outside production only.
Start(production) ==
  /\ io' = ~ production
  /\ UNCHANGED << inventory, orders, cashCloses, today, reqs, audit, users >>

\* req.io.to(room).emit(...): without req.io the call throws a TypeError.
broadcast(attached) == IF attached THEN "sent" ELSE "throws"

\* The response of a handler whose write ended in outcome: the broadcast
\* follows the write inside the handler's try block, whose catch answers 500.
respond(outcome, attached) ==
  IF outcome = "ok" /\ broadcast(attached) = "throws" THEN "Internal" ELSE outcome

NextBroadcast ==
  \/ \E production \in BOOLEAN : Start(production)
  \/ CreateOrder("u1", << Line("i1", 1) >>)
  \/ \E o \in 1 .. MaxOrders, s \in {"preparing", "delivered", "cancelled"} :
       UpdateOrderStatus("u1", o, s)
  \/ \E n \in 1 .. 2, operation \in {"set", "add", "subtract"} :
       UpdateQuantity("u1", "i1", n, operation)

SpecBroadcast == Init /\ [][NextBroadcast]_vars

\* Status updates write by write, one request at a time, on a server that may
\* die at any point.
NextCrash ==
  \/ CreateOrder("u1", << Line("i1", 1) >>)
  \/ \E o \in 1 .. MaxOrders, s \in {"preparing", "cancelled"} :
       /\ o \in DOMAIN audit =>
            audit[o].decrements < MaxRetries /\ audit[o].restores < MaxRetries
       /\ StatusFind("p1", "u1", o, s)
  \/ StatusInc("p1")
  \/ StatusSave("p1")
  \/ Crash

SpecCrash == Init /\ [][NextCrash]_vars

\* Status requests for every value of the enum.
NextStatus ==
  \/ \E lines \in { << Line("i1", 1) >>, << Line("i2", 1) >>, << Line("i1", 1), Line("i2", 1) >> } :
       CreateOrder("u1", lines)
  \/ \E o \in 1 .. MaxOrders, s \in OrderStatuses : UpdateOrderStatus("u1", o, s)

SpecStatus == Init /\ [][NextStatus]_vars

(* ------------------------------ claims -------------------------------- *)

\* Two distinct active cash closes of one restaurant and one shift, both open.
openTwice(c1, c2) ==
  /\ c1 # c2
  /\ cashCloses[c1].isActive /\ cashCloses[c2].isActive
  /\ cashCloses[c1].status = "open" /\ cashCloses[c2].status = "open"
  /\ cashCloses[c1].restaurant = cashCloses[c2].restaurant
  /\ cashCloses[c1].shift = cashCloses[c2].shift

\* C1: in every reachable state each restaurant has, per shift, at most one
\* active cash close whose status is open.
C1_AtMostOneOpenPerShift ==
  \A c1, c2 \in DOMAIN cashCloses : ~ openTwice(c1, c2)

\* The close requests of the sales specification: user, record, closing cash,
\* reported card sales, supplied expenses.
SalesCloses ==
  {"u1", "u3"} \X (1 .. MaxCashCloses) \X {5} \X CardAmounts \X ExpenseLists

\* A step is the successful close q of the sales specification.
closesOk(q) ==
  /\ closeCashOutcome(cashCloses, orders, today, q[1], q[2], q[3], q[4], q[5]) = "ok"
  /\ CloseCash(q[1], q[2], q[3], q[4], q[5])

\* The persisted record of close q carries S - C, O + (S - C) - sum(E) and
\* K - expectedCash, S being the delivered-orders sum the handler computed.
closeArithmetic(q) ==
  LET S   == totalSalesFromOrders(orders, UserRestaurant(q[1]), today)
      rec == cashCloses'[q[2]]
      sumE == SumSeq([k \in DOMAIN q[5] |-> q[5][k].amount])
  IN  /\ rec.sales.cash = S - q[4]
      /\ rec.expectedCash = rec.openingCash + rec.sales.cash - sumE
      /\ rec.difference = Some(q[3] - rec.expectedCash)
      /\ rec.openingCash = cashCloses[q[2]].openingCash

\* The stored difference of close q is not the intermediate (K + C) - S.
notReported(q) ==
  cashCloses'[q[2]].difference #
    Some((q[3] + q[4]) - totalSalesFromOrders(orders, UserRestaurant(q[1]), today))

\* C2 (as amended): after a successful close the persisted record has
\* sales.cash = S - C, expectedCash = openingCash + sales.cash - sum of the
\* expense amounts and difference = K - expectedCash; the stored difference
\* differs from the intermediate (K + C) - S whenever openingCash differs from
\* the sum of the expense amounts.
C2_CloseArithmetic ==
  [][\A q \in SalesCloses :
       closesOk(q) =>
         /\ closeArithmetic(q)
         /\ (cashCloses[q[2]].openingCash # expensesTotal(q[5]) => notReported(q))]_vars

\* C2 (as claimed): the same, the intermediate (K + C) - S never being the
\* stored difference.
C2_NeverReported ==
  [][\A q \in SalesCloses : closesOk(q) => closeArithmetic(q) /\ notReported(q)]_vars

\* A shift closed over delivered sales, with card sales and expenses reported.
C2_Witness ==
  \E c \in DOMAIN cashCloses :
    /\ cashCloses[c].status = "closed"
    /\ cashCloses[c].shift = "morning"
    /\ cashCloses[c].sales.total = Some(6)
    /\ cashCloses[c].sales.card = 3
    /\ cashCloses[c].sales.cash = 3
    /\ cashCloses[c].totalExpenses = 2
    /\ cashCloses[c].difference = Some(5 - cashCloses[c].expectedCash)

\* The orders of a restaurant created on a day whose status is delivered,
\* archived and deleted ones included.
allDelivered(rest, day) ==
  { o \in DOMAIN orders : /\ orders[o].restaurant = rest
                          /\ orders[o].createdAt = day
                          /\ orders[o].status = "delivered" }

\* C3: after a successful close the stored sales.total is the sum of total over
\* all orders of the restaurant created that day whose status is delivered,
\* whatever order deletes, day ends and status changes came before.
C3_SalesTotalAllDelivered ==
  [][\A q \in SalesCloses :
       closesOk(q) =>
         cashCloses'[q[2]].sales.total =
           Some(SumOver([o \in DOMAIN orders |-> orders[o].total],
                        allDelivered(UserRestaurant(q[1]), today)))]_vars

\* The close requests of the cash specification.
CashCloseRequests ==
  Users \X (1 .. MaxCashCloses) \X ClosingAmounts \X CardAmounts \X ExpenseLists

\* C4: a close request on a cash close that is closed or verified fails with
\* InvalidState and leaves every field of the record as it was.
C4_SecondCloseRefused ==
  [][\A q \in CashCloseRequests :
       ( /\ cashFound(cashCloses, UserRestaurant(q[1]), q[2])
         /\ cashCloses[q[2]].status \in {"closed", "verified"} ) =>
         /\ closeCashOutcome(cashCloses, orders, today, q[1], q[2], q[3], q[4], q[5])
              = "InvalidState"
         /\ CloseCash(q[1], q[2], q[3], q[4], q[5]) => cashCloses' = cashCloses]_vars

\* A closed or verified record that a further close, were it applied, would
\* pass validation and rewrite.
C4_Witness ==
  \E c \in DOMAIN cashCloses :
    /\ cashCloses[c].status \in {"closed", "verified"}
    /\ cashCloses[c].restaurant = "r1"
    /\ cashCloses[c].closingCash = Some(5)
    /\ cashValid(closing(cashCloses, orders, today, "u1", c, 0, 0, << >>))
    /\ cashPreSave(closing(cashCloses, orders, today, "u1", c, 0, 0, << >>)) # cashCloses[c]

\* C5: after a successful restore of a closed or verified cash close the status
\* is open, expectedCash is openingCash, the sales fields cash, card, transfer
\* and total are zero, and closingCash, closedBy, verifiedBy, verifiedAt and
\* difference are cleared.
C5_RestoreResets ==
  [][\A c \in 1 .. MaxCashCloses :
       ( /\ restoreCashOutcome(cashCloses, "u1", c) = "ok"
         /\ RestoreCash("u1", c) ) =>
         LET rec == cashCloses'[c] IN
         /\ cashCloses[c].status \in {"closed", "verified"}
         /\ rec.status = "open"
         /\ rec.openingCash = cashCloses[c].openingCash
         /\ rec.expectedCash = rec.openingCash
         /\ rec.sales = [cash |-> 0, card |-> 0, transfer |-> 0, total |-> Some(0)]
         /\ rec.closingCash = None /\ rec.closedBy = None
         /\ rec.verifiedBy = None /\ rec.verifiedAt = None
         /\ rec.difference = None]_vars

\* A record restored after a close that had reported expenses: open again, its
\* sales at zero and its expected cash back at the opening cash.
C5_Witness ==
  \E c \in DOMAIN cashCloses :
    /\ cashCloses[c].status = "open"
    /\ cashCloses[c].sales.total = Some(0)
    /\ cashCloses[c].totalExpenses = 2
    /\ cashCloses[c].expectedCash = cashCloses[c].openingCash
    /\ cashCloses[c].closingCash = None

\* The create requests of the order specifications: user and lines.
CreateRequests == Users \X OrderRequests

\* Some line asks more of an item than the stock holds of it.
anyShort(lines) ==
  \E k \in DOMAIN lines :
    /\ lines[k].inventoryItem \in DOMAIN inventory
    /\ inventory[lines[k].inventoryItem].quantity < lines[k].quantity

\* Line k of a request is one the caller's restaurant cannot order: its item is
\* missing, inactive or another restaurant's, or the stock is short.
rejected(rest, lines, k) ==
  \/ ~ itemFound(inventory, rest, lines[k].inventoryItem)
  \/ inventory[lines[k].inventoryItem].quantity < lines[k].quantity

\* The failure the first rejected line of a request stands for.
firstFailure(rest, lines) ==
  LET f == CHOOSE k \in DOMAIN lines :
             /\ rejected(rest, lines, k)
             /\ \A j \in 1 .. (k - 1) : ~ rejected(rest, lines, j)
  IN  IF itemFound(inventory, rest, lines[f].inventoryItem)
        THEN "InsufficientStock" ELSE "NotFound"

\* C6 (as amended): a create request with a line whose quantity exceeds the
\* stock of its item fails and writes nothing, no order and no inventory
\* quantity; the failure is InsufficientStock when the first line the loop
\* rejects names an item found in the caller's restaurant, NotFound when that
\* line names an item that is missing, inactive or another restaurant's.
C6_NoPartialWrite ==
  [][\A r \in CreateRequests :
       anyShort(r[2]) =>
         /\ createOrderOutcome(inventory, r[1], r[2])
              = firstFailure(UserRestaurant(r[1]), r[2])
         /\ CreateOrder(r[1], r[2]) => UNCHANGED << orders, inventory >>]_vars

\* C6 (as claimed): such a request fails with InsufficientStock and writes
\* nothing.
C6_InsufficientStock ==
  [][\A r \in CreateRequests :
       anyShort(r[2]) =>
         /\ createOrderOutcome(inventory, r[1], r[2]) = "InsufficientStock"
         /\ CreateOrder(r[1], r[2]) => UNCHANGED << orders, inventory >>]_vars

\* With an order stored and room for another, a two-line request whose first
\* line passes and whose second line is short of stock.
C6_Witness ==
  /\ Len(orders) >= 1 /\ Len(orders) < MaxOrders
  /\ \E lines \in OrderRequests :
       /\ Len(lines) = 2
       /\ validateItems(inventory, "r1", << lines[1] >>) = "ok"
       /\ createOrderOutcome(inventory, "u1", lines) = "InsufficientStock"

\* The quantity an order's lines ask of item i.
lineQty(items, i) ==
  SumSeq([k \in DOMAIN items |->
            IF items[k].inventoryItem = i THEN items[k].quantity ELSE 0])

\* C7: cancelling an order whose stock was subtracted adds back to each item
\* exactly the quantity its lines ordered, and once an order is cancelled no
\* status update or delete adds its quantities back again.
C7_CancelRestoresOnce ==
  [][\A o \in DOMAIN orders :
       /\ ( /\ IsSet(orders[o].inventoryDecrementedAt)
            /\ \E u \in Users : /\ updateStatusOutcome(orders, u, o) = "ok"
                                /\ UpdateOrderStatus(u, o, "cancelled") ) =>
            /\ \A i \in Items :
                 inventory'[i].quantity = inventory[i].quantity + lineQty(orders[o].items, i)
            /\ audit'[o].restores = audit[o].restores + 1
       /\ orders[o].status = "cancelled" =>
            /\ audit[o].restores <= 1
            /\ audit'[o].restores = audit[o].restores]_vars

\* A two-line order cancelled after its stock was subtracted: subtracted once,
\* added back once.
C7_Witness ==
  \E o \in DOMAIN orders :
    /\ orders[o].status = "cancelled"
    /\ Len(orders[o].items) = 2
    /\ audit[o].decrements = 1
    /\ audit[o].restores = 1

\* C8: for every order, under any interleaving of status requests, the lines
\* are subtracted from the stock (and the marker set) at most once.
C8_DecrementAtMostOnce ==
  \A o \in DOMAIN audit : audit[o].decrements <= 1

\* C9: in every reachable state the quantity of every inventory item is a
\* non-negative integer.
C9_QuantityNonNegative ==
  \A i \in DOMAIN inventory : inventory[i].quantity \in Nat

\* C10: every stored order has subtotal = sum of quantity x unitPrice over its
\* lines and total = subtotal + tax - discount.
C10_TotalsRecomputed ==
  \A o \in DOMAIN orders :
    /\ orders[o].subtotal =
         SumSeq([k \in DOMAIN orders[o].items |->
                   orders[o].items[k].quantity * orders[o].items[k].unitPrice])
    /\ orders[o].total = orders[o].subtotal + orders[o].tax - orders[o].discount

\* An order saved again with a tax, a discount and other lines than it was
\* created with, and then delivered.
C10_Witness ==
  \E o \in DOMAIN orders :
    /\ orders[o].tax = 1 /\ orders[o].discount = 1
    /\ orders[o].subtotal = 6 /\ orders[o].total = 6
    /\ orders[o].status = "delivered"

\* C11: in every reachable state every inventory item has totalValue =
\* quantity x costPrice and isLowStock = (quantity <= minQuantity), whichever
\* operation changed the item last.
C11_DerivedFields ==
  \A i \in DOMAIN inventory :
    /\ inventory[i].totalValue = inventory[i].quantity * inventory[i].costPrice
    /\ inventory[i].isLowStock = (inventory[i].quantity <= inventory[i].minQuantity)

\* The sales total of a record, a record that never had one counting as zero.
salesTotal(doc) ==
  IF IsSet(doc.sales.total) THEN doc.sales.total[1] ELSE 0

\* C12: every stored cash close has totalExpenses = sum of its expense amounts
\* and netSales = sales.total - totalExpenses, whichever operation saved it.
C12_DerivedTotals ==
  \A c \in DOMAIN cashCloses :
    /\ cashCloses[c].totalExpenses =
         SumSeq([k \in DOMAIN cashCloses[c].expenses |-> cashCloses[c].expenses[k].amount])
    /\ cashCloses[c].netSales = salesTotal(cashCloses[c]) - cashCloses[c].totalExpenses

\* C13: a verify by an admin or manager on a record of the caller's restaurant
\* succeeds exactly when the status is closed, and then sets the status to
\* verified and stamps the verifier and the time, leaving the rest; on an open
\* or verified record it fails with InvalidState and changes nothing.
C13_VerifyOnlyClosed ==
  [][\A u \in Users, c \in 1 .. MaxCashCloses :
       (authorize(u) /\ cashFound(cashCloses, UserRestaurant(u), c)) =>
         IF cashCloses[c].status = "closed"
           THEN /\ verifyCashOutcome(cashCloses, u, c) = "ok"
                /\ VerifyCash(u, c) =>
                     cashCloses' = [cashCloses EXCEPT ![c].status = "verified",
                                                      ![c].verifiedBy = Some(u),
                                                      ![c].verifiedAt = Some(today)]
           ELSE /\ verifyCashOutcome(cashCloses, u, c) = "InvalidState"
                /\ VerifyCash(u, c) => cashCloses' = cashCloses]_vars

\* A verified record next to an open one, each a verify request away.
C13_Witness ==
  \E c, d \in DOMAIN cashCloses :
    /\ cashCloses[c].status = "verified"
    /\ cashCloses[c].verifiedBy = Some("u1")
    /\ cashCloses[c].closingCash = Some(5)
    /\ cashCloses[d].status = "open"
    /\ cashCloses[d].restaurant = "r1"

\* The add-expense requests of the cash specification.
ExpenseRequests == Users \X (1 .. MaxCashCloses) \X ExpenseBodies

\* C14: an add-expense on a record of the caller's restaurant is accepted
\* exactly while the status is open, and then appends that one expense and
\* raises totalExpenses by its amount; on a closed or verified record it is
\* refused and the record stays as it was.
C14_ExpenseOnlyOpen ==
  [][\A q \in ExpenseRequests :
       cashFound(cashCloses, UserRestaurant(q[1]), q[2]) =>
         IF cashCloses[q[2]].status = "open"
           THEN /\ addExpenseOutcome(cashCloses, q[1], q[2]) = "ok"
                /\ AddExpense(q[1], q[2], q[3]) =>
                     /\ cashCloses'[q[2]].expenses = cashCloses[q[2]].expenses \o << q[3] >>
                     /\ cashCloses'[q[2]].totalExpenses
                          = cashCloses[q[2]].totalExpenses + q[3].amount
           ELSE /\ addExpenseOutcome(cashCloses, q[1], q[2]) = "InvalidState"
                /\ AddExpense(q[1], q[2], q[3]) => cashCloses' = cashCloses]_vars

\* An open record holding two expenses, the second one added to the first.
C14_Witness ==
  \E c \in DOMAIN cashCloses :
    /\ cashCloses[c].status = "open"
    /\ Len(cashCloses[c].expenses) = 2
    /\ cashCloses[c].totalExpenses = 3

\* The orders, items and cash closes that belong to another restaurant than
\* the caller's are after the step what they were before it.
othersUntouched(u) ==
  /\ \A o \in DOMAIN orders :
       orders[o].restaurant # UserRestaurant(u) => orders'[o] = orders[o]
  /\ \A i \in DOMAIN inventory :
       inventory[i].restaurant # UserRestaurant(u) => inventory'[i] = inventory[i]
  /\ \A c \in DOMAIN cashCloses :
       cashCloses[c].restaurant # UserRestaurant(u) => cashCloses'[c] = cashCloses[c]

\* The lookups of a caller answer NotFound for the id of another restaurant's
\* order or cash close.
othersNotFound(u) ==
  /\ \A o \in DOMAIN orders :
       orders[o].restaurant # UserRestaurant(u) =>
         /\ updateStatusOutcome(orders, u, o) = "NotFound"
         /\ \A body \in TenantBodies : updateOrderOutcome(orders, u, o, body) = "NotFound"
  /\ \A c \in DOMAIN cashCloses :
       cashCloses[c].restaurant # UserRestaurant(u) =>
         /\ closeCashOutcome(cashCloses, orders, today, u, c, 5, 0, << >>) = "NotFound"
         /\ restoreCashOutcome(cashCloses, u, c) = "NotFound"

\* C15: no request of a caller of one restaurant modifies an order, inventory
\* item or cash close of another restaurant; the id of such a record answers
\* NotFound and the record is the same before and after the request.
C15_TenantIsolation ==
  [][\A u \in {"u1", "u3"} :
       /\ othersNotFound(u)
       /\ TenantStep(u) => othersUntouched(u)]_vars

\* C16: no user-management request of a caller of one restaurant, whatever
\* the caller's role, modifies a user record of another restaurant: password,
\* role, active flag and owning restaurant stay as they were.
C16_UserIsolation ==
  [][\A caller \in Users :
       UserStep(caller) =>
         \A v \in Users :
           users[v].restaurant # users[caller].restaurant => users'[v] = users[v]]_vars

\* C17: a failing broadcast never fails the write: a status change or a
\* stock adjustment whose write went through stays persisted and the request
\* does not answer with an error, whether or not a transport is attached.
C17_BroadcastNeverFails ==
  [][/\ \A o \in 1 .. MaxOrders, s \in {"preparing", "delivered", "cancelled"} :
          (updateStatusOutcome(orders, "u1", o) = "ok" /\ UpdateOrderStatus("u1", o, s)) =>
             /\ orders'[o].status = s
             /\ respond(updateStatusOutcome(orders, "u1", o), io) = "ok"
     /\ \A n \in 1 .. 2, operation \in {"set", "add", "subtract"} :
          (/\ updateQuantityOutcome(inventory, "u1", "i1", n, operation) = "ok"
           /\ UpdateQuantity("u1", "i1", n, operation)) =>
             /\ inventory'["i1"].quantity = updateQuantity(inventory["i1"], n, operation).quantity
             /\ respond(updateQuantityOutcome(inventory, "u1", "i1", n, operation), io) = "ok"]_vars

\* The status changes of a cash close: close, verify, restore.
statusChange(from, to) ==
  << from, to >> \in { << "open", "closed" >>, << "closed", "verified" >>,
                       << "closed", "open" >>, << "verified", "open" >> }

\* Every record the step leaves in place keeps its status or changes it by
\* close, verify or restore.
statusChangesAllowed ==
  \A c \in DOMAIN cashCloses :
    \/ cashCloses'[c].status = cashCloses[c].status
    \/ statusChange(cashCloses[c].status, cashCloses'[c].status)

\* Restore on an open record of the caller's restaurant fails and changes nothing.
restoreOnOpenFails ==
  \A u \in Users, c \in DOMAIN cashCloses :
    (cashFound(cashCloses, UserRestaurant(u), c) /\ cashCloses[c].status = "open") =>
      /\ restoreCashOutcome(cashCloses, u, c) = "InvalidState"
      /\ RestoreCash(u, c) => UNCHANGED cashCloses

\* The records the step creates.
created == DOMAIN cashCloses' \ DOMAIN cashCloses

\* C18 as stated: every cash close starts open, its status changes only by
\* open->closed, closed->verified and closed/verified->open, and restore on an
\* open record fails and changes nothing; so none is closed or verified
\* without having been open.
C18_EveryRecordStartsOpen ==
  [][/\ \A c \in created : cashCloses'[c].status = "open"
     /\ statusChangesAllowed
     /\ restoreOnOpenFails]_vars

\* C18: every cash close starts open, except the summary record of a day
\* end, which is created closed; its status changes only by open->closed,
\* closed->verified and closed/verified->open, and restore on an open record
\* fails and changes nothing; so no record but a day-end summary is closed or
\* verified without having been open.
C18_StatusMachine ==
  [][/\ \A c \in created :
          \/ cashCloses'[c].status = "open"
          \/ cashCloses'[c].status = "closed" /\ \E u \in Users : DayEnd(u)
     /\ statusChangesAllowed
     /\ restoreOnOpenFails]_vars

\* One record verified after its close, the other open again after a restore
\* (a restore leaves the sales total at zero, an opening leaves it unset).
C18_Witness ==
  \E c, d \in DOMAIN cashCloses :
    /\ cashCloses[c].status = "verified"
    /\ cashCloses[d].status = "open"
    /\ cashCloses[d].sales.total = Some(0)

\* The quantity update-quantity is to leave on an item holding q.
expectedQuantity(q, n, operation) ==
  IF operation = "add" THEN q + n
  ELSE IF operation = "subtract" THEN Max(0, q - n)
  ELSE n

\* C19: update-quantity with amount n on an item holding q succeeds and
\* leaves quantity n for set, q + n for add and max(0, q - n) for subtract,
\* and the saved item has isLowStock = (quantity <= minQuantity).
C19_UpdateQuantity ==
  [][\A n \in 1 .. 2, operation \in {"set", "add", "subtract"} :
       itemFound(inventory, "r1", "i1") =>
         /\ updateQuantityOutcome(inventory, "u1", "i1", n, operation) = "ok"
         /\ UpdateQuantity("u1", "i1", n, operation) =>
              /\ inventory'["i1"].quantity =
                   expectedQuantity(inventory["i1"].quantity, n, operation)
              /\ inventory'["i1"].isLowStock =
                   (inventory'["i1"].quantity <= inventory'["i1"].minQuantity)]_vars

\* The lines of a new order hold the prices the items had before the step.
snapshotAtCreation(doc) ==
  /\ \A k \in DOMAIN doc.items :
       /\ doc.items[k].unitPrice = inventory[doc.items[k].inventoryItem].sellingPrice
       /\ doc.items[k].cost = inventory[doc.items[k].inventoryItem].costPrice
  /\ doc.subtotal = SumSeq([k \in DOMAIN doc.items |->
                              doc.items[k].quantity * doc.items[k].unitPrice])
  /\ doc.total = doc.subtotal

\* The prices and the totals of an order are the same in both documents.
samePrices(before, after) ==
  /\ DOMAIN after.items = DOMAIN before.items
  /\ \A k \in DOMAIN before.items :
       /\ after.items[k].unitPrice = before.items[k].unitPrice
       /\ after.items[k].cost = before.items[k].cost
  /\ after.subtotal = before.subtotal
  /\ after.total = before.total

\* C20: an order line stores the item's selling price and cost as they are
\* when the order is created; a later change of the item's prices, and any
\* later save of the order, leaves unitPrice, cost, subtotal and total of
\* every existing order unchanged.
C20_PriceSnapshot ==
  [][/\ \A o \in DOMAIN orders' \ DOMAIN orders : snapshotAtCreation(orders'[o])
     /\ \A o \in DOMAIN orders : samePrices(orders[o], orders'[o])]_vars

\* An order saved again after both prices of its item changed: it still holds
\* the prices of its creation.
C20_Witness ==
  \E o \in DOMAIN orders :
    /\ orders[o].status = "delivered"
    /\ \E k \in DOMAIN orders[o].items :
         /\ orders[o].items[k].unitPrice #
              inventory[orders[o].items[k].inventoryItem].sellingPrice
         /\ orders[o].items[k].cost #
              inventory[orders[o].items[k].inventoryItem].costPrice
         /\ orders[o].total = orders[o].items[k].quantity * orders[o].items[k].unitPrice

\* The orders a day end of restaurant rest archives: its active orders.
archived(rest) ==
  { o \in DOMAIN orders : orders[o].restaurant = rest /\ orders[o].isActive }

\* C21: after a successful day end no order of the restaurant is active, and
\* the summary's sales.total and the reported totalOrders are the sum of the
\* totals and the count of exactly the orders the day end archived.
C21_DayEndArchives ==
  [][(dayEndOutcome(orders, today, "u1") = "ok" /\ DayEnd("u1")) =>
       /\ \A o \in DOMAIN orders' : orders'[o].restaurant = "r1" => ~ orders'[o].isActive
       /\ cashCloses'[Len(cashCloses')].sales.total =
            Some(SumOver([o \in DOMAIN orders |-> orders[o].total], archived("r1")))
       /\ totalOrders(orders, "r1", today) = Cardinality(archived("r1"))]_vars

\* A request for order o that subtracts stock stands between its two writes,
\* and no other request wrote the order since it was loaded.
betweenWrites(p) ==
  /\ reqs[p].pc = "adjusted"
  /\ decrements(reqs[p].doc, reqs[p].newStatus)
  /\ orders[reqs[p].order] = reqs[p].doc

\* C22 as stated: the two writes are separate, and a crash between them
\* leaves the order persisted as preparing while its stock is not subtracted.
C22_PreparingUnadjusted ==
  [][\A p \in Procs :
       (betweenWrites(p) /\ Crash) =>
          /\ orders'[reqs[p].order].status = reqs[p].newStatus
          /\ audit'[reqs[p].order].decrements = 0]_vars

\* C22: the two writes are separate, the stock first and the order second: the
\* first subtracts every line from the stock and leaves the order as it is, and
\* a crash between them leaves the stock subtracted while the order is persisted
\* in its previous status with its decrement marker unset.
C22_AdjustedNotPreparing ==
  [][\A p \in Procs :
       /\ (reqs[p].pc = "loaded" /\ decrements(reqs[p].doc, reqs[p].newStatus)
             /\ StatusInc(p)) =>
            /\ orders' = orders
            /\ \A i \in Items : inventory'[i].quantity =
                 inventory[i].quantity - lineQty(reqs[p].doc.items, i)
       /\ (betweenWrites(p) /\ Crash) =>
            /\ inventory' = inventory
            /\ audit'[reqs[p].order].decrements >= 1
            /\ orders'[reqs[p].order].status = reqs[p].doc.status
            /\ orders'[reqs[p].order].status # reqs[p].newStatus
            /\ ~ IsSet(orders'[reqs[p].order].inventoryDecrementedAt)]_vars

\* After a crash: no request in flight, an order still pending with its marker
\* unset, and its stock subtracted.
C22_Witness ==
  /\ \A p \in Procs : reqs[p] = Idle
  /\ \E o \in DOMAIN orders :
       /\ orders[o].status = "pending"
       /\ ~ IsSet(orders[o].inventoryDecrementedAt)
       /\ audit[o].decrements >= 1
       /\ inventory["i1"].quantity < 2

\* C23: the first status update of an order into preparing or delivered
\* (marker unset) subtracts from the stock, for every line, that line's
\* quantity and sets the marker; a later update into preparing or delivered
\* while the marker is set changes no quantity.
C23_DecrementOnFirst ==
  [][\A o \in DOMAIN orders, u \in Users, s \in {"preparing", "delivered"} :
       (updateStatusOutcome(orders, u, o) = "ok" /\ UpdateOrderStatus(u, o, s)) =>
          IF ~ IsSet(orders[o].inventoryDecrementedAt)
            THEN /\ \A i \in Items : inventory'[i].quantity =
                      inventory[i].quantity - lineQty(orders[o].items, i)
                 /\ IsSet(orders'[o].inventoryDecrementedAt)
            ELSE \A i \in Items : inventory'[i].quantity = inventory[i].quantity]_vars

\* A two-line order delivered with its marker set: both items hold their
\* initial quantity less the line's, subtracted once.
C23_Witness ==
  \E o \in DOMAIN orders :
    /\ orders[o].status = "delivered"
    /\ IsSet(orders[o].inventoryDecrementedAt)
    /\ Len(orders[o].items) = 2
    /\ audit[o].decrements = 1
    /\ Len(orders) = 1
    /\ \A i \in Items : inventory[i].quantity =
         (IF i = "i1" THEN 2 ELSE 1) - lineQty(orders[o].items, i)

\* C24 as stated: whatever the current status of an order, cancelled
\* included, a status request for any value of the enum succeeds and the
\* order's status becomes that value.
C24_AnyStatusAccepted ==
  [][\A o \in DOMAIN orders, s \in OrderStatuses :
       /\ updateStatusOutcome(orders, "u1", o) = "ok"
       /\ UpdateOrderStatus("u1", o, s) => orders'[o].status = s]_vars

\* C24: for an active order, whatever its current status, a status request
\* for any value of the enum succeeds and the order's status becomes that
\* value; an order that a status update cancelled is inactive and its status
\* requests answer NotFound and leave it as it is.
C24_AnyStatusOfActive ==
  [][\A o \in DOMAIN orders, s \in OrderStatuses :
       IF orders[o].isActive
         THEN /\ updateStatusOutcome(orders, "u1", o) = "ok"
              /\ UpdateOrderStatus("u1", o, s) => orders'[o].status = s
         ELSE /\ orders[o].status = "cancelled"
              /\ updateStatusOutcome(orders, "u1", o) = "NotFound"
              /\ UpdateOrderStatus("u1", o, s) => orders'[o] = orders[o]]_vars

\* One order back in pending after its stock was subtracted, the other
\* cancelled.
C24_Witness ==
  \E o, q \in DOMAIN orders :
    /\ orders[o].status = "pending"
    /\ IsSet(orders[o].inventoryDecrementedAt)
    /\ orders[q].status = "cancelled"
    /\ ~ orders[q].isActive

\* A status update into cancelled leaves the order inactive, one into
\* delivered leaves it active.
cancelDeactivates ==
  \A o \in DOMAIN orders, u \in Users :
    /\ (updateStatusOutcome(orders, u, o) = "ok" /\ UpdateOrderStatus(u, o, "cancelled")) =>
         ~ orders'[o].isActive
    /\ (updateStatusOutcome(orders, u, o) = "ok" /\ UpdateOrderStatus(u, o, "delivered")) =>
         orders'[o].isActive

\* The get, update and status requests of caller u for order o answer NotFound.
cancelledNotFound(u, o) ==
  /\ getOrderOutcome(orders, u, o) = "NotFound"
  /\ \A body \in UpdateBodies : updateOrderOutcome(orders, u, o, body) = "NotFound"
  /\ updateStatusOutcome(orders, u, o) = "NotFound"

\* No request of caller u for order o changes the order or the stock.
cancelledUntouched(u, o) ==
  ( \/ \E body \in UpdateBodies : UpdateOrder(u, o, body)
    \/ \E s \in StatusRequests : UpdateOrderStatus(u, o, s)
    \/ DeleteOrder(u, o) ) =>
  (orders'[o] = orders[o] /\ inventory' = inventory)

\* C25 as stated: cancelling sets the active flag to false, and from then on
\* every get, update, status and delete request for the order answers
\* NotFound and changes neither the order nor the stock; a delivered order
\* stays active.
C25_CancelledNotFound ==
  [][/\ cancelDeactivates
     /\ \A o \in DOMAIN orders, u \in Users :
          orders[o].status = "cancelled" =>
            /\ cancelledNotFound(u, o)
            /\ deleteOrderOutcome(orders, u, o) = "NotFound"
            /\ cancelledUntouched(u, o)]_vars

\* C25: cancelling sets the active flag to false, and from then on every get,
\* update and status request for the order, and every delete request of a
\* manager or admin, answers NotFound, a delete request of an employee answers
\* Forbidden, and none changes the order or the stock; a delivered order stays
\* active.
C25_CancelledGone ==
  [][/\ cancelDeactivates
     /\ \A o \in DOMAIN orders, u \in Users :
          orders[o].status = "cancelled" =>
            /\ cancelledNotFound(u, o)
            /\ deleteOrderOutcome(orders, u, o) =
                 (IF authorize(u) THEN "NotFound" ELSE "Forbidden")
            /\ cancelledUntouched(u, o)]_vars

\* One order cancelled and inactive after its stock was subtracted and added
\* back, the other delivered and active.
C25_Witness ==
  \E o, q \in DOMAIN orders :
    /\ orders[o].status = "cancelled" /\ ~ orders[o].isActive
    /\ audit[o].decrements = 1 /\ audit[o].restores = 1
    /\ orders[q].status = "delivered" /\ orders[q].isActive

\* C26: the delete of an order that is not delivered adds every line's
\* quantity to its item, whether or not the marker is set, and sets the
\* active flag to false; the delete of a delivered order changes no quantity.
C26_DeleteRestores ==
  [][\A o \in DOMAIN orders, u \in Users :
       (deleteOrderOutcome(orders, u, o) = "ok" /\ DeleteOrder(u, o)) =>
          /\ ~ orders'[o].isActive
          /\ \A i \in Items : inventory'[i].quantity =
               inventory[i].quantity +
                 (IF orders[o].status # "delivered" THEN lineQty(orders[o].items, i) ELSE 0)]_vars

\* An order deleted while pending, its stock never subtracted and yet added
\* back, beside a delivered order deleted with nothing added back.
C26_Witness ==
  \E o, q \in DOMAIN orders :
    /\ ~ orders[o].isActive /\ orders[o].status = "pending"
    /\ audit[o].decrements = 0 /\ audit[o].restores = 1
    /\ ~ orders[q].isActive /\ orders[q].status = "delivered"
    /\ audit[q].decrements = 1 /\ audit[q].restores = 0

\* C27: a day end asked by an employee is rejected as Forbidden, archives no
\* order and creates no summary record.
C27_DayEndManagersOnly ==
  [][\A u \in Users :
       ~ authorize(u) =>
          /\ dayEndOutcome(orders, today, u) = "Forbidden"
          /\ DayEnd(u) => UNCHANGED << orders, cashCloses >>]_vars

\* C28: every expense added through add-expense to an open cash close (one
\* never closed before, so that its list holds added expenses only) is in the
\* list after the close and is counted in the totalExpenses of the close.
C28_ExpensesSurviveClose ==
  [][\A u \in Users, c \in DOMAIN cashCloses, k \in ClosingAmounts, cd \in CardAmounts,
        e \in ExpenseLists :
       ( /\ ~ IsSet(cashCloses[c].sales.total)
         /\ closeCashOutcome(cashCloses, orders, today, u, c, k, cd, e) = "ok"
         /\ CloseCash(u, c, k, cd, e) ) =>
          /\ \A j \in DOMAIN cashCloses[c].expenses :
               \E n \in DOMAIN cashCloses'[c].expenses :
                 cashCloses'[c].expenses[n] = cashCloses[c].expenses[j]
          /\ cashCloses'[c].totalExpenses >= expensesTotal(cashCloses[c].expenses)]_vars

\* The quantity an item holds before any order.
initialQuantity(i) == IF i = "i1" THEN 2 ELSE 1

\* The orders whose decrement marker is set.
marked == { o \in DOMAIN orders : IsSet(orders[o].inventoryDecrementedAt) }

\* C29: in a run of order creations and status updates alone, every item
\* holds its initial quantity less the quantities that the orders whose
\* marker is set hold of it, and an order creation changes no quantity.
C29_StockBalance ==
  /\ [](\A i \in Items :
          inventory[i].quantity =
            initialQuantity(i) -
              SumOver([o \in DOMAIN orders |-> lineQty(orders[o].items, i)], marked))
  /\ [][\A lines \in { << Line("i1", 1) >>, << Line("i2", 1) >>,
                       << Line("i1", 1), Line("i2", 1) >> } :
          CreateOrder("u1", lines) => inventory' = inventory]_vars

\* One order with its marker set, the other cancelled after its stock was
\* subtracted and added back.
C29_Witness ==
  \E o, q \in DOMAIN orders :
    /\ IsSet(orders[o].inventoryDecrementedAt)
    /\ Len(orders[o].items) = 2
    /\ orders[q].status = "cancelled"
    /\ audit[q].decrements = 1 /\ audit[q].restores = 1
    /\ inventory["i1"].quantity = 1

\* C30: PUT /api/orders/:id, whatever its body, leaves the order's status,
\* active flag, decrement marker, line items and owning restaurant, and every
\* inventory quantity, as they were.
C30_UpdateDescriptiveOnly ==
  [][\A u \in {"u1", "u3"}, o \in DOMAIN orders, body \in TenantBodies :
       UpdateOrder(u, o, body) =>
          /\ orders'[o].status = orders[o].status
          /\ orders'[o].isActive = orders[o].isActive
          /\ orders'[o].inventoryDecrementedAt = orders[o].inventoryDecrementedAt
          /\ orders'[o].items = orders[o].items
          /\ orders'[o].restaurant = orders[o].restaurant
          /\ inventory' = inventory]_vars

====
